---------------------------- MODULE Spec2Model ----------------------------
(***************************************************************************)
(* A model of interlex_export.py: the declarative binary format of an      *)
(* Interlex .ilx file (build_interlex_format), the projection of a parsed  *)
(* file to InterlexMetadata and InterlexEntry values                       *)
(* (prepare_data_for_export) and the batch loop of the script's main       *)
(* section, which parses every input file and then writes one CSV file.    *)
(*                                                                         *)
(* Bytes are integers 0..255, byte strings are sequences of bytes and      *)
(* decoded text is a sequence of Unicode code points.  TLC's integers are  *)
(* 32 bits wide and signed, so an unsigned 32-bit value is kept as the     *)
(* pair <<hi, lo>> of its 16-bit halves, denoting hi * 65536 + lo.         *)
(***************************************************************************)
EXTENDS Integers, Sequences, FiniteSets, TLC

VARIABLES
  pc,                  \* position of the main section
  input_file_paths,    \* number of input files named on the command line
  include_csv_header,  \* command line option --no-header (FALSE when given)
  files,               \* what parse() has read so far, in order: its bytes and how they were made
  parsed_file,         \* the value of parse() for the current file
  metadata,            \* the value of prepare_data_for_export()[0] for the current file
  entries,             \* the value of prepare_data_for_export()[1] for the current file
  printed,             \* the metadata print_metadata() has printed, in order
  entry_sets,          \* the list the loop appends to
  output,              \* the rows of the output file, or NotWritten
  writes,              \* number of times save_file() has opened the output file
  error                \* the uncaught exception that ended the script, or "none"

vars == <<pc, input_file_paths, include_csv_header, files, parsed_file, metadata,
          entries, printed, entry_sets, output, writes, error>>

-----------------------------------------------------------------------------
(* Bounds of the model *)

\* number of input files of a batch
MaxFiles == 2

\* number of entry records of a constructed file
MaxEntries == 2

-----------------------------------------------------------------------------
(* Language registry and code pages *)

LanguageInfo(name, variety, codepage) ==
  [name |-> name, variety |-> variety, codepage |-> codepage]

\* (mutant) the metadata encoding taken to be the Western code page
METADATA_ENCODING_Western == "windows-1252"

METADATA_ENCODING == "windows-1250"


\* Code point of each byte 128..255 in Python's cp1250 and cp1252 codecs;
\* -1 marks a byte the code page leaves undefined.
CP1250_HIGH ==
  <<
      8364,    -1,  8218,    -1,  8222,  8230,  8224,  8225,
        -1,  8240,   352,  8249,   346,   356,   381,   377,
        -1,  8216,  8217,  8220,  8221,  8226,  8211,  8212,
        -1,  8482,   353,  8250,   347,   357,   382,   378,
       160,   711,   728,   321,   164,   260,   166,   167,
       168,   169,   350,   171,   172,   173,   174,   379,
       176,   177,   731,   322,   180,   181,   182,   183,
       184,   261,   351,   187,   317,   733,   318,   380,
       340,   193,   194,   258,   196,   313,   262,   199,
       268,   201,   280,   203,   282,   205,   206,   270,
       272,   323,   327,   211,   212,   336,   214,   215,
       344,   366,   218,   368,   220,   221,   354,   223,
       341,   225,   226,   259,   228,   314,   263,   231,
       269,   233,   281,   235,   283,   237,   238,   271,
       273,   324,   328,   243,   244,   337,   246,   247,
       345,   367,   250,   369,   252,   253,   355,   729
  >>

CP1252_HIGH ==
  <<
      8364,    -1,  8218,   402,  8222,  8230,  8224,  8225,
       710,  8240,   352,  8249,   338,    -1,   381,    -1,
        -1,  8216,  8217,  8220,  8221,  8226,  8211,  8212,
       732,  8482,   353,  8250,   339,    -1,   382,   376,
       160,   161,   162,   163,   164,   165,   166,   167,
       168,   169,   170,   171,   172,   173,   174,   175,
       176,   177,   178,   179,   180,   181,   182,   183,
       184,   185,   186,   187,   188,   189,   190,   191,
       192,   193,   194,   195,   196,   197,   198,   199,
       200,   201,   202,   203,   204,   205,   206,   207,
       208,   209,   210,   211,   212,   213,   214,   215,
       216,   217,   218,   219,   220,   221,   222,   223,
       224,   225,   226,   227,   228,   229,   230,   231,
       232,   233,   234,   235,   236,   237,   238,   239,
       240,   241,   242,   243,   244,   245,   246,   247,
       248,   249,   250,   251,   252,   253,   254,   255
  >>

LANGUAGES ==
  1078  :> LanguageInfo("Afrikaans",  "None",               "windows-1252") @@
  1052  :> LanguageInfo("Albanian",   "None",               "windows-1250") @@
  1069  :> LanguageInfo("Basque",     "None",               "windows-1252") @@
  1027  :> LanguageInfo("Catalan",    "None",               "windows-1252") @@
  1050  :> LanguageInfo("Croatian",   "None",               "windows-1250") @@
  1029  :> LanguageInfo("Czech",      "None",               "windows-1250") @@
  1030  :> LanguageInfo("Danish",     "None",               "windows-1252") @@
  2067  :> LanguageInfo("Dutch",      "Belgian",            "windows-1252") @@
  1043  :> LanguageInfo("Dutch",      "Standard",           "windows-1252") @@
  3081  :> LanguageInfo("English",    "Australian",         "windows-1252") @@
  4105  :> LanguageInfo("English",    "Canadian",           "windows-1252") @@
  9225  :> LanguageInfo("English",    "Caribbean",          "windows-1252") @@
  6153  :> LanguageInfo("English",    "Ireland",            "windows-1252") @@
  8201  :> LanguageInfo("English",    "Jamaica",            "windows-1252") @@
  5129  :> LanguageInfo("English",    "New Zealand",        "windows-1252") @@
  7177  :> LanguageInfo("English",    "South Africa",       "windows-1252") @@
  2057  :> LanguageInfo("English",    "United Kingdom",     "windows-1252") @@
  1033  :> LanguageInfo("English",    "United States",      "windows-1252") @@
  1035  :> LanguageInfo("Finnish",    "None",               "windows-1252") @@
  2060  :> LanguageInfo("French",     "Belgian",            "windows-1252") @@
  3084  :> LanguageInfo("French",     "Candadian",          "windows-1252") @@
  5132  :> LanguageInfo("French",     "Luxembourg",         "windows-1252") @@
  1036  :> LanguageInfo("French",     "Standard",           "windows-1252") @@
  4108  :> LanguageInfo("French",     "Swiss",              "windows-1252") @@
  3079  :> LanguageInfo("German",     "Austrian",           "windows-1252") @@
  5127  :> LanguageInfo("German",     "Liechtenstein",      "windows-1252") @@
  4103  :> LanguageInfo("German",     "Luxembourg",         "windows-1252") @@
  1031  :> LanguageInfo("German",     "Standard",           "windows-1252") @@
  2055  :> LanguageInfo("German",     "Swiss",              "windows-1252") @@
  1038  :> LanguageInfo("Hungarian",  "None",               "windows-1250") @@
  1039  :> LanguageInfo("Icelandic",  "None",               "windows-1252") @@
  1057  :> LanguageInfo("Indonesian", "None",               "windows-1252") @@
  1040  :> LanguageInfo("Italian",    "Standard",           "windows-1252") @@
  2064  :> LanguageInfo("Italian",    "Swiss",              "windows-1252") @@
  1044  :> LanguageInfo("Norwegian",  "Bokmal",             "windows-1252") @@
  2068  :> LanguageInfo("Norwegian",  "Nynorsk",            "windows-1252") @@
  1045  :> LanguageInfo("Polish",     "None",               "windows-1250") @@
  1046  :> LanguageInfo("Portugese",  "Brazilian",          "windows-1252") @@
  2070  :> LanguageInfo("Portugese",  "Standard",           "windows-1252") @@
  1048  :> LanguageInfo("Romanian",   "None",               "windows-1250") @@
  2074  :> LanguageInfo("Serbian",    "Latin",              "windows-1250") @@
  1051  :> LanguageInfo("Slovak",     "None",               "windows-1250") @@
  1060  :> LanguageInfo("Slovenian",  "None",               "windows-1250") @@
  11274 :> LanguageInfo("Spanish",    "Argentina",          "windows-1252") @@
  16394 :> LanguageInfo("Spanish",    "Bolivia",            "windows-1252") @@
  13322 :> LanguageInfo("Spanish",    "Chile",              "windows-1252") @@
  9226  :> LanguageInfo("Spanish",    "Colombia",           "windows-1252") @@
  5130  :> LanguageInfo("Spanish",    "Costa Rica",         "windows-1252") @@
  7178  :> LanguageInfo("Spanish",    "Dominican Republic", "windows-1252") @@
  12298 :> LanguageInfo("Spanish",    "Ecuador",            "windows-1252") @@
  17418 :> LanguageInfo("Spanish",    "El Salvador",        "windows-1252") @@
  4106  :> LanguageInfo("Spanish",    "Guatemala",          "windows-1252") @@
  18442 :> LanguageInfo("Spanish",    "Honduras",           "windows-1252") @@
  3082  :> LanguageInfo("Spanish",    "International Sort", "windows-1252") @@
  2058  :> LanguageInfo("Spanish",    "Mexico",             "windows-1252") @@
  19466 :> LanguageInfo("Spanish",    "Nicaragua",          "windows-1252") @@
  6154  :> LanguageInfo("Spanish",    "Panama",             "windows-1252") @@
  15370 :> LanguageInfo("Spanish",    "Paraguay",           "windows-1252") @@
  10250 :> LanguageInfo("Spanish",    "Peru",               "windows-1252") @@
  20490 :> LanguageInfo("Spanish",    "Puerto Rico",        "windows-1252") @@
  1034  :> LanguageInfo("Spanish",    "Traditional Sort",   "windows-1252") @@
  14346 :> LanguageInfo("Spanish",    "Uruguay",            "windows-1252") @@
  8202  :> LanguageInfo("Spanish",    "Venezuela",          "windows-1252") @@
  1053  :> LanguageInfo("Swedish",    "None",               "windows-1252")

CodePoint(byte, encoding) ==
  IF byte < 128 THEN byte
  ELSE IF encoding = "windows-1250" THEN CP1250_HIGH[byte - 127]
  ELSE CP1252_HIGH[byte - 127]

\* (mutant) decode with errors='replace': U+FFFD for an undefined byte
decode_replace(bytes, encoding) ==
  [ok |-> TRUE,
   val |-> [k \in 1..Len(bytes) |->
              IF CodePoint(bytes[k], encoding) < 0 THEN 65533
              ELSE CodePoint(bytes[k], encoding)]]

\* bytes.decode(encoding) with the default errors='strict': the text, or a
\* UnicodeDecodeError when a byte is undefined in the code page.
decode(bytes, encoding) ==
  IF \E k \in 1..Len(bytes) : CodePoint(bytes[k], encoding) < 0
  THEN [ok |-> FALSE, val |-> <<>>]
  ELSE [ok |-> TRUE, val |-> [k \in 1..Len(bytes) |-> CodePoint(bytes[k], encoding)]]

-----------------------------------------------------------------------------
(* The construct declarations used by build_interlex_format *)

ULInt8(name)  == [con |-> "ULInt8",  name |-> name]
ULInt16(name) == [con |-> "ULInt16", name |-> name]
ULInt32(name) == [con |-> "ULInt32", name |-> name]
SLInt32(name) == [con |-> "SLInt32", name |-> name]
PascalString(name, length_field) ==
  [con |-> "PascalString", name |-> name, length_field |-> length_field]
Struct(name, subcons) == [con |-> "Struct", name |-> name, subcons |-> subcons]
\* Array(count, subcon): count is a number or a function of the context;
\* the array takes the name of its element.
CountInt(n)   == [ctx |-> "", n |-> n]
CountCtx(key) == [ctx |-> key, n |-> 0]
Array(count, subcon) ==
  [con |-> "Array", name |-> subcon.name, count |-> count, subcon |-> subcon]
Terminator == [con |-> "Terminator", name |-> ""]

build_interlex_format ==
  Struct("interlex23", <<
    PascalString("program_and_version", ULInt8("length")),
    ULInt16("foreign_language_id"),
    ULInt16("native_language_id"),
    ULInt32("questions_attempted"),
    ULInt32("questions_answered_correctly"),
    PascalString("description", ULInt16("length")),
    PascalString("author",      ULInt16("length")),
    PascalString("comments",    ULInt16("length")),
    Array(CountInt(10), ULInt8("unknown")),
    ULInt32("word_count"),
    Array(
      CountCtx("word_count"),
      Struct("entry", <<
        PascalString("word",           ULInt16("length")),
        PascalString("part_of_speech", ULInt16("length")),
        PascalString("notes",          ULInt16("length")),
        PascalString("translation",    ULInt16("length")),
        SLInt32("counter"),
        SLInt32("unknown"),
        SLInt32("penalty_points")
      >>)),
    Terminator
  >>)

-----------------------------------------------------------------------------
(* Parsing: each parser takes the buffer and the number of bytes already   *)
(* read and gives [ok, val, pos]; ok = FALSE is a ConstructError.          *)

ParseOk(val, pos) == [ok |-> TRUE, val |-> val, pos |-> pos]
ParseError == [ok |-> FALSE, val |-> <<>>, pos |-> 0]

\* An unsigned 32-bit value as its 16-bit halves; a count c < value.
U32(hi, lo) == <<hi, lo>>
U32Less(c, u) ==
  \/ c \div 65536 < u[1]
  \/ c \div 65536 = u[1] /\ c % 65536 < u[2]

\* Read exactly n bytes; fewer left in the stream is a FieldError.
ReadStream(buf, pos, n) ==
  IF pos + n <= Len(buf)
  THEN ParseOk(SubSeq(buf, pos + 1, pos + n), pos + n)
  ELSE ParseError

ULInt8Parse(buf, pos) ==
  LET r == ReadStream(buf, pos, 1)
  IN  IF r.ok THEN ParseOk(r.val[1], r.pos) ELSE ParseError

\* (mutant) the two bytes read big-endian
UBInt16Parse(buf, pos) ==
  LET r == ReadStream(buf, pos, 2)
  IN  IF r.ok THEN ParseOk(256 * r.val[1] + r.val[2], r.pos) ELSE ParseError

ULInt16Parse(buf, pos) ==
  LET r == ReadStream(buf, pos, 2)
  IN  IF r.ok THEN ParseOk(r.val[1] + 256 * r.val[2], r.pos) ELSE ParseError

ULInt32Parse(buf, pos) ==
  LET r == ReadStream(buf, pos, 4)
  IN  IF r.ok
      THEN ParseOk(U32(r.val[3] + 256 * r.val[4], r.val[1] + 256 * r.val[2]), r.pos)
      ELSE ParseError

\* (mutant) the sign bit dropped
SLInt32ParseNoSign(buf, pos) ==
  LET r == ReadStream(buf, pos, 4)
  IN  IF r.ok
      THEN ParseOk(r.val[1] + 256 * r.val[2] + 65536 * r.val[3]
                     + 16777216 * (r.val[4] % 128), r.pos)
      ELSE ParseError

SLInt32Parse(buf, pos) ==
  LET r == ReadStream(buf, pos, 4)
      top == IF r.val[4] >= 128 THEN r.val[4] - 256 ELSE r.val[4]
  IN  IF r.ok
      THEN ParseOk(r.val[1] + 256 * r.val[2] + 65536 * r.val[3] + 16777216 * top, r.pos)
      ELSE ParseError

IntParse(con, buf, pos) ==
  CASE con.con = "ULInt8"  -> ULInt8Parse(buf, pos)
    [] con.con = "ULInt16" -> ULInt16Parse(buf, pos)
    [] con.con = "ULInt32" -> ULInt32Parse(buf, pos)
    [] con.con = "SLInt32" -> SLInt32Parse(buf, pos)

\* The length field, then that many bytes.
PascalStringParse(con, buf, pos) ==
  LET length == IntParse(con.length_field, buf, pos)
  IN  IF length.ok THEN ReadStream(buf, length.pos, length.val) ELSE ParseError

\* (mutant) no check that the stream has ended
TerminatorIgnored(buf, pos) == ParseOk(<<>>, pos)

\* Terminator: a TerminatorError unless the stream is at its end.
TerminatorParse(buf, pos) ==
  IF pos = Len(buf) THEN ParseOk(<<>>, pos) ELSE ParseError

ArrayCount(count, ctx) ==
  IF count.ctx = "" THEN U32(0, count.n) ELSE ctx[count.ctx]

RECURSIVE ParseCon(_, _, _, _)
RECURSIVE ArrayParse(_, _, _, _, _, _)
RECURSIVE StructParse(_, _, _, _, _)

\* (mutant) OptionalGreedyRange: elements for as long as they parse, whatever
\* the count says
RECURSIVE GreedyRangeParse(_, _, _, _, _, _)
GreedyRangeParse(subcon, count, buf, pos, ctx, obj) ==
  LET r == ParseCon(subcon, buf, pos, ctx)
  IN  IF r.ok THEN GreedyRangeParse(subcon, count, buf, r.pos, ctx, Append(obj, r.val))
      ELSE ParseOk(obj, pos)

\* Array: exactly count elements; an element that fails is an ArrayError.
ArrayParse(subcon, count, buf, pos, ctx, obj) ==
  IF ~U32Less(Len(obj), count) THEN ParseOk(obj, pos)
  ELSE LET r == ParseCon(subcon, buf, pos, ctx)
       IN  IF r.ok THEN ArrayParse(subcon, count, buf, r.pos, ctx, Append(obj, r.val))
           ELSE ParseError

\* Struct: the subcons in order, each named value stored in the container.
StructParse(subcons, k, buf, pos, obj) ==
  IF k > Len(subcons) THEN ParseOk(obj, pos)
  ELSE LET r == ParseCon(subcons[k], buf, pos, obj)
       IN  IF ~r.ok THEN ParseError
           ELSE IF subcons[k].name = "" THEN StructParse(subcons, k + 1, buf, r.pos, obj)
           ELSE StructParse(subcons, k + 1, buf, r.pos, obj @@ (subcons[k].name :> r.val))

ParseCon(con, buf, pos, ctx) ==
  CASE con.con = "PascalString" -> PascalStringParse(con, buf, pos)
    [] con.con = "Array"        -> ArrayParse(con.subcon, ArrayCount(con.count, ctx), buf, pos, ctx, <<>>)
    [] con.con = "Struct"       -> StructParse(con.subcons, 1, buf, pos, <<>>)
    [] con.con = "Terminator"   -> TerminatorParse(buf, pos)
    [] OTHER                    -> IntParse(con, buf, pos)

\* file_format.parse(data)
FormatParse(file_format, data) == ParseCon(file_format, data, 0, <<>>)

-----------------------------------------------------------------------------
(* Building: file_format.build(obj) gives [ok, val]; val is the bytes laid *)
(* out for the container, ok = FALSE is the error of a value that does not *)
(* fit its field (struct.error, raised as a FieldError) or of an array     *)
(* whose length is not its count (ArrayError).                             *)

BuildOk(bytes) == [ok |-> TRUE, val |-> bytes]
BuildError == [ok |-> FALSE, val |-> <<>>]
BuildCat(a, b) == IF a.ok /\ b.ok THEN BuildOk(a.val \o b.val) ELSE BuildError

ULInt8Build(v) ==
  IF v \in 0..255 THEN BuildOk(<<v>>) ELSE BuildError
ULInt16Build(v) ==
  IF v \in 0..65535 THEN BuildOk(<<v % 256, v \div 256>>) ELSE BuildError
ULInt32Build(v) ==
  IF v[1] \in 0..65535 /\ v[2] \in 0..65535
  THEN BuildOk(<<v[2] % 256, v[2] \div 256, v[1] % 256, v[1] \div 256>>)
  ELSE BuildError
\* Every integer of the model is within the signed 32 bits of the field.
SLInt32Build(v) ==
  LET lo == v % 65536
      hi == ((v - lo) \div 65536) % 65536
  IN  BuildOk(<<lo % 256, lo \div 256, hi % 256, hi \div 256>>)

IntBuild(con, v) ==
  CASE con.con = "ULInt8"  -> ULInt8Build(v)
    [] con.con = "ULInt16" -> ULInt16Build(v)
    [] con.con = "ULInt32" -> ULInt32Build(v)
    [] con.con = "SLInt32" -> SLInt32Build(v)

RECURSIVE BuildCon(_, _, _)
RECURSIVE ArrayBuild(_, _, _, _)
RECURSIVE StructBuild(_, _, _, _)

ArrayBuild(subcon, obj, k, ctx) ==
  IF k > Len(obj) THEN BuildOk(<<>>)
  ELSE BuildCat(BuildCon(subcon, obj[k], ctx), ArrayBuild(subcon, obj, k + 1, ctx))

\* Struct: each subcon builds the member of its name, which joins the context.
StructBuild(subcons, obj, k, ctx) ==
  IF k > Len(subcons) THEN BuildOk(<<>>)
  ELSE IF subcons[k].name = ""
  THEN BuildCat(BuildCon(subcons[k], <<>>, ctx), StructBuild(subcons, obj, k + 1, ctx))
  ELSE BuildCat(BuildCon(subcons[k], obj[subcons[k].name], ctx),
                StructBuild(subcons, obj, k + 1,
                            ctx @@ (subcons[k].name :> obj[subcons[k].name])))

BuildCon(con, obj, ctx) ==
  CASE con.con = "PascalString" ->
         BuildCat(IntBuild(con.length_field, Len(obj)), BuildOk(obj))
    [] con.con = "Array"        ->
         IF ArrayCount(con.count, ctx) = U32(Len(obj) \div 65536, Len(obj) % 65536)
         THEN ArrayBuild(con.subcon, obj, 1, ctx)
         ELSE BuildError
    [] con.con = "Struct"       -> StructBuild(con.subcons, obj, 1, <<>>)
    [] con.con = "Terminator"   -> BuildOk(<<>>)
    [] OTHER                    -> IntBuild(con, obj)

FormatBuild(file_format, obj) == BuildCon(file_format, obj, <<>>)

-----------------------------------------------------------------------------
(* prepare_data_for_export *)

InterlexEntry(word, part_of_speech, notes, translation, counter, penalty_points, file_description) ==
  [word |-> word, part_of_speech |-> part_of_speech, notes |-> notes,
   translation |-> translation, counter |-> counter,
   penalty_points |-> penalty_points, file_description |-> file_description]

InterlexEntry_fields ==
  <<"word", "part_of_speech", "notes", "translation", "counter", "penalty_points",
    "file_description">>

\* (mutant) LANGUAGES.get(id, default): a fallback language for an unknown id
LanguagesItemOrDefault(id) ==
  IF id \in DOMAIN LANGUAGES
  THEN [ok |-> TRUE, val |-> LANGUAGES[id]]
  ELSE [ok |-> TRUE, val |-> LanguageInfo("Unknown", "None", "windows-1252")]

\* LANGUAGES[id]: the language, or a KeyError when id is no key of the table.
LanguagesItem(id) ==
  IF id \in DOMAIN LANGUAGES
  THEN [ok |-> TRUE, val |-> LANGUAGES[id]]
  ELSE [ok |-> FALSE, val |-> <<>>]

\* (mutant) the word decoded with the code page of the foreign language
foreign_encoding_of_foreign(parsed) ==
  LanguagesItem(parsed.foreign_language_id).val.codepage

\* The code page of the word field and of the other three entry fields.
foreign_encoding(parsed) == LanguagesItem(parsed.native_language_id).val.codepage
native_encoding(parsed)  == LanguagesItem(parsed.native_language_id).val.codepage

\* The metadata tuple; its arguments are evaluated in order, so a header text
\* that does not decode raises before either language id is looked up.
prepare_metadata(input_file_path, parsed) ==
  LET program_and_version == decode(parsed.program_and_version, METADATA_ENCODING)
      description         == decode(parsed.description, METADATA_ENCODING)
      author              == decode(parsed.author, METADATA_ENCODING)
      comments            == decode(parsed.comments, METADATA_ENCODING)
      foreign_language    == LanguagesItem(parsed.foreign_language_id)
      native_language     == LanguagesItem(parsed.native_language_id)
  IN  IF ~(program_and_version.ok /\ description.ok /\ author.ok /\ comments.ok)
      THEN [ok |-> FALSE, error |-> "UnicodeDecodeError", val |-> <<>>]
      ELSE IF ~(foreign_language.ok /\ native_language.ok)
      THEN [ok |-> FALSE, error |-> "KeyError", val |-> <<>>]
      ELSE [ok |-> TRUE, error |-> "none", val |->
             [input_file_path              |-> input_file_path,
              program_and_version          |-> program_and_version.val,
              description                  |-> description.val,
              author                       |-> author.val,
              comments                     |-> comments.val,
              foreign_language_id          |-> parsed.foreign_language_id,
              foreign_language_name        |-> foreign_language.val.name,
              foreign_language_variety     |-> foreign_language.val.variety,
              native_language_id           |-> parsed.native_language_id,
              native_language_name         |-> native_language.val.name,
              native_language_variety      |-> native_language.val.variety,
              word_count                   |-> parsed.word_count,
              questions_attempted          |-> parsed.questions_attempted,
              questions_answered_correctly |-> parsed.questions_answered_correctly]]

\* One element of the entries list, or a UnicodeDecodeError.
prepare_entry(entry, parsed, description) ==
  LET word           == decode(entry.word, foreign_encoding(parsed))
      part_of_speech == decode(entry.part_of_speech, native_encoding(parsed))
      notes          == decode(entry.notes, native_encoding(parsed))
      translation    == decode(entry.translation, native_encoding(parsed))
  IN  IF word.ok /\ part_of_speech.ok /\ notes.ok /\ translation.ok
      THEN [ok |-> TRUE, val |->
             InterlexEntry(word.val, part_of_speech.val, notes.val, translation.val,
                           entry.counter, entry.penalty_points, description)]
      ELSE [ok |-> FALSE, val |-> <<>>]

prepare_data_for_export(input_file_path, parsed) ==
  LET m == prepare_metadata(input_file_path, parsed)
      es == [k \in 1..Len(parsed.entry) |->
               prepare_entry(parsed.entry[k], parsed, m.val.description)]
  IN  IF ~m.ok THEN [ok |-> FALSE, error |-> m.error, metadata |-> <<>>, entries |-> <<>>]
      ELSE IF \E k \in 1..Len(es) : ~es[k].ok
      THEN [ok |-> FALSE, error |-> "UnicodeDecodeError", metadata |-> <<>>, entries |-> <<>>]
      ELSE [ok |-> TRUE, error |-> "none", metadata |-> m.val,
            entries |-> [k \in 1..Len(es) |-> es[k].val]]

-----------------------------------------------------------------------------
(* generate_csv and the list handed to it *)

\* (mutant) the entry sets chained last file first
RECURSIVE chain_reversed(_)
chain_reversed(sets) ==
  IF sets = <<>> THEN <<>> ELSE chain_reversed(Tail(sets)) \o Head(sets)

RECURSIVE chain(_)
chain(sets) == IF sets = <<>> THEN <<>> ELSE Head(sets) \o chain(Tail(sets))

\* One row per entry, its fields in the order of the tuple, after the header
\* row when it is asked for.  The rows stand for the text csv.writer makes of
\* them; quoting and the UTF-8 encoding of save_file are not modelled.
EntryRow(e) ==
  <<e.word, e.part_of_speech, e.notes, e.translation, e.counter, e.penalty_points,
    e.file_description>>

generate_csv(all_entries, include_header) ==
  (IF include_header THEN <<InterlexEntry_fields>> ELSE <<>>)
    \o [k \in 1..Len(all_entries) |-> EntryRow(all_entries[k])]

-----------------------------------------------------------------------------
(* The input files.  A file is made by building the bytes of a container   *)
(* and then, possibly, damaging them; the record keeps how it was made.    *)

NoDamage == [kind |-> "none", at |-> 0, byte |-> 0]
Truncate(at) == [kind |-> "truncate", at |-> at, byte |-> 0]
AppendByte(byte) == [kind |-> "append", at |-> 0, byte |-> byte]
SetByte(at, byte) == [kind |-> "set", at |-> at, byte |-> byte]

Damaged(bytes, damage) ==
  CASE damage.kind = "none"     -> bytes
    [] damage.kind = "truncate" -> SubSeq(bytes, 1, damage.at)
    [] damage.kind = "append"   -> Append(bytes, damage.byte)
    [] damage.kind = "set"      -> [bytes EXCEPT ![damage.at] = damage.byte]

MakeFile(value, damage) ==
  [value |-> value, damage |-> damage,
   bytes |-> Damaged(FormatBuild(build_interlex_format, value).val, damage)]

Entry(word, part_of_speech, notes, translation, counter, unknown, penalty_points) ==
  [word |-> word, part_of_speech |-> part_of_speech, notes |-> notes,
   translation |-> translation, counter |-> counter, unknown |-> unknown,
   penalty_points |-> penalty_points]

Header(program_and_version, foreign_language_id, native_language_id, questions_attempted, questions_answered_correctly, description, author, comments, unknown, entry) ==
  [program_and_version |-> program_and_version,
   foreign_language_id |-> foreign_language_id,
   native_language_id |-> native_language_id,
   questions_attempted |-> questions_attempted,
   questions_answered_correctly |-> questions_answered_correctly,
   description |-> description, author |-> author, comments |-> comments,
   unknown |-> unknown, word_count |-> U32(0, Len(entry)), entry |-> entry]

\* Bytes used in texts: 65..87 are ASCII; 163 is defined in both code pages
\* with different characters; 141 is defined in windows-1250 only, 131 in
\* windows-1252 only; 129 is undefined in both.
Zeros10 == <<0, 0, 0, 0, 0, 0, 0, 0, 0, 0>>
Mixed10 == <<1, 0, 0, 0, 0, 255, 0, 0, 0, 128>>

DefaultEntry == Entry(<<87, 163>>, <<80>>, <<>>, <<84, 84>>, 3, 0, 0)
LearntEntry  == Entry(<<76>>, <<>>, <<78, 163>>, <<84>>, 70000, 9, -1)

\* Polish and Slovak use windows-1250, US English windows-1252; 9999 is no language.
LanguageIds == {1045, 1033, 9999}

DefaultHeader(foreign_language_id, native_language_id, entry) ==
  Header(<<73, 76, 50>>, foreign_language_id, native_language_id, U32(0, 7), U32(0, 5),
         <<68>>, <<>>, <<67, 163>>, Zeros10, entry)

SeqsUpTo(S, n) == UNION {[1..k -> S] : k \in 0..n}

\* Every combination of the four header texts and the two language ids.
HeaderStrs == {<<>>, <<65, 163>>, <<131>>}
HeaderTextValues ==
  {Header(p, f, n, U32(0, 7), U32(0, 5), d, a, c, Zeros10, <<DefaultEntry>>) :
     p \in HeaderStrs, d \in HeaderStrs, a \in HeaderStrs, c \in HeaderStrs,
     f \in LanguageIds, n \in LanguageIds}

\* The counters and the reserved block.
U32Values == {U32(0, 0), U32(1, 2), U32(65535, 65535)}
HeaderIntValues ==
  {Header(<<73, 76, 50>>, 1033, 1045, qa, qc, <<68>>, <<>>, <<67, 163>>, u, <<LearntEntry>>) :
     qa \in U32Values, qc \in U32Values, u \in {Zeros10, Mixed10}}

\* One entry that differs from DefaultEntry in one text or in its integers.
EntryStrs == {<<>>, <<141>>, <<131, 65>>, <<65, 129>>}
S32Triples == {<<0, 0, 0>>, <<-1, 7, -1>>, <<-2147483647 - 1, -2, 2147483647>>, <<65536, 256, -256>>}
EntryValues ==
  {[DefaultEntry EXCEPT ![f] = s] : f \in {"word", "part_of_speech", "notes", "translation"},
                                    s \in EntryStrs}
    \cup {Entry(<<87, 163>>, <<80>>, <<>>, <<84, 84>>, t[1], t[2], t[3]) : t \in S32Triples}
OneEntryValues ==
  {DefaultHeader(f, n, <<e>>) : f \in LanguageIds, n \in LanguageIds, e \in EntryValues}

\* Files of 0..MaxEntries entries.
FewEntries == {DefaultEntry, LearntEntry, [DefaultEntry EXCEPT !.notes = <<141>>]}
ManyEntryValues ==
  {DefaultHeader(1033, n, es) : n \in LanguageIds, es \in SeqsUpTo(FewEntries, MaxEntries)}

\* Files damaged at every place: cut short, a byte set, a byte added.
RECURSIVE Repeat(_, _)
Repeat(e, n) == IF n = 0 THEN <<>> ELSE <<e>> \o Repeat(e, n - 1)
DamageBase == {DefaultHeader(1033, 1045, Repeat(LearntEntry, n)) : n \in 0..MaxEntries}
DamagesOf(value) ==
  LET len == Len(FormatBuild(build_interlex_format, value).val)
  IN  {Truncate(k) : k \in 0..(len - 1)}
        \cup {SetByte(p, b) : p \in 1..len, b \in {0, 2, 255}}
        \cup {AppendByte(b) : b \in {0, 65}}
DamagedFiles == UNION {{MakeFile(v, d) : d \in DamagesOf(v)} : v \in DamageBase}

Files ==
  {MakeFile(v, NoDamage) :
     v \in HeaderTextValues \cup HeaderIntValues \cup OneEntryValues \cup ManyEntryValues}
    \cup DamagedFiles

\* The files of a batch: entries 1..n of a fixed list under two descriptions,
\* and four files that do not parse or do not project.
RECURSIVE NumberedEntries(_)
NumberedEntries(n) ==
  IF n = 0 THEN <<>>
  ELSE Append(NumberedEntries(n - 1), Entry(<<87, 48 + n>>, <<80>>, <<>>, <<84, 163>>, n, 0, n - 2))
BatchValues ==
  {Header(<<73, 76, 50>>, 1033, 1045, U32(0, 7), U32(0, 5), d, <<65>>, <<>>, Zeros10,
          NumberedEntries(n)) : d \in {<<68, 49>>, <<68, 163>>}, n \in 0..MaxEntries}
BatchFiles ==
  {MakeFile(v, NoDamage) : v \in BatchValues}
    \cup {MakeFile(DefaultHeader(1033, 1045, NumberedEntries(MaxEntries)), Truncate(70)),
          MakeFile(DefaultHeader(1033, 1045, <<DefaultEntry>>), AppendByte(0)),
          MakeFile(DefaultHeader(9999, 1045, <<DefaultEntry>>), NoDamage),
          MakeFile(DefaultHeader(1033, 1033, <<[DefaultEntry EXCEPT !.word = <<141>>]>>), NoDamage)}

-----------------------------------------------------------------------------
(* The main section *)

NotWritten == <<"not written">>
NoValue == <<>>

InitWith(paths, header_option) ==
  /\ pc = "parse"
  /\ input_file_paths \in paths
  /\ include_csv_header \in header_option
  /\ files = <<>>
  /\ parsed_file = NoValue
  /\ metadata = NoValue
  /\ entries = <<>>
  /\ printed = <<>>
  /\ entry_sets = <<>>
  /\ output = NotWritten
  /\ writes = 0
  /\ error = "none"

\* parse(input_file_path, file_format): the file's bytes, chosen among D.
\* When parse raises, the assignment of its value never happens and
\* parsed_file keeps what it held: the container of the file before, if any.
Parse(D) ==
  /\ pc = "parse"
  /\ \E f \in D :
       LET r == FormatParse(build_interlex_format, f.bytes)
       IN  /\ files' = Append(files, f)
           /\ IF r.ok
              THEN /\ parsed_file' = r.val
                   /\ pc' = "prepare"
                   /\ error' = error
              ELSE /\ parsed_file' = parsed_file
                   /\ pc' = "failed"
                   /\ error' = "ConstructError"
  /\ UNCHANGED <<input_file_paths, include_csv_header, metadata, entries, printed,
                 entry_sets, output, writes>>

Prepare ==
  /\ pc = "prepare"
  /\ LET r == prepare_data_for_export(Len(files), parsed_file)
     IN  IF r.ok
         THEN /\ metadata' = r.metadata
              /\ entries' = r.entries
              /\ pc' = "print"
              /\ error' = error
         ELSE /\ UNCHANGED <<metadata, entries>>
              /\ pc' = "failed"
              /\ error' = r.error
  /\ UNCHANGED <<input_file_paths, include_csv_header, files, parsed_file, printed,
                 entry_sets, output, writes>>

\* (mutant) the output file saved inside the loop, after each input file
PrintAppendAndSave ==
  /\ pc = "print"
  /\ printed' = Append(printed, metadata)
  /\ entry_sets' = Append(entry_sets, entries)
  /\ output' = generate_csv(chain(Append(entry_sets, entries)), include_csv_header)
  /\ writes' = writes + 1
  /\ pc' = IF Len(files) < input_file_paths THEN "parse" ELSE "save"
  /\ UNCHANGED <<input_file_paths, include_csv_header, files, parsed_file, metadata,
                 entries, error>>

\* print_metadata(metadata) and entry_sets.append(entries); then the next
\* input file, or the end of the loop.
PrintAndAppend ==
  /\ pc = "print"
  /\ printed' = Append(printed, metadata)
  /\ entry_sets' = Append(entry_sets, entries)
  /\ pc' = IF Len(files) < input_file_paths THEN "parse" ELSE "save"
  /\ UNCHANGED <<input_file_paths, include_csv_header, files, parsed_file, metadata,
                 entries, output, writes, error>>

\* save_file(output_file_path, generate_csv(all_entries, ...))
Save ==
  /\ pc = "save"
  /\ output' = generate_csv(chain(entry_sets), include_csv_header)
  /\ writes' = writes + 1
  /\ pc' = "done"
  /\ UNCHANGED <<input_file_paths, include_csv_header, files, parsed_file, metadata,
                 entries, printed, entry_sets, error>>

\* A batch of 1..MaxFiles input files.
Init == InitWith(1..MaxFiles, BOOLEAN)
ParseBatchFile == Parse(BatchFiles)
Next == ParseBatchFile \/ Prepare \/ PrintAndAppend \/ Save
Spec == Init /\ [][Next]_vars

\* One input file, drawn from every file of the model.
InitOne == InitWith({1}, {TRUE})
ParseFile == Parse(Files)
NextOne == ParseFile \/ Prepare \/ PrintAndAppend \/ Save
SpecOne == InitOne /\ [][NextOne]_vars

-----------------------------------------------------------------------------
(* Properties.  C1..C4 and C6..C9 are about one file and are checked under *)
(* SpecOne; C5 and C10 are about a batch and are checked under Spec.       *)

CurrentFile == files[Len(files)]
ParseFailed == pc = "failed" /\ error = "ConstructError"
Parsed      == files # <<>> /\ ~ParseFailed
Prepared    == pc \in {"print", "save", "done"}
PrepareDone == files # <<>> /\ ~ParseFailed /\ pc # "prepare"
NothingReturned == metadata = NoValue /\ entries = <<>> /\ printed = <<>> /\ entry_sets = <<>>

\* Bytes the two code pages leave undefined.
Undefined1250 == {129, 131, 136, 144, 152}
Undefined1252 == {129, 141, 143, 144, 157}
UndefinedIn(codepage) == IF codepage = "windows-1250" THEN Undefined1250 ELSE Undefined1252
HasByteIn(bytes, S) == \E k \in 1..Len(bytes) : bytes[k] \in S
EntryTexts(e) == {e.word, e.part_of_speech, e.notes, e.translation}
HeaderTexts(h) == {h.program_and_version, h.description, h.author, h.comments}

\* The places <<offset, width>> of the length prefixes in the layout of a value.
RECURSIVE EntryPrefixes(_, _, _)
EntryPrefixes(entry, k, base) ==
  IF k > Len(entry) THEN {}
  ELSE LET e == entry[k]
           p == base + 2 + Len(e.word)
           n == p + 2 + Len(e.part_of_speech)
           t == n + 2 + Len(e.notes)
       IN  {<<base, 2>>, <<p, 2>>, <<n, 2>>, <<t, 2>>}
             \cup EntryPrefixes(entry, k + 1, t + 2 + Len(e.translation) + 12)
LengthPrefixes(h) ==
  LET d == 1 + Len(h.program_and_version) + 12
      a == d + 2 + Len(h.description)
      c == a + 2 + Len(h.author)
  IN  {<<0, 1>>, <<d, 2>>, <<a, 2>>, <<c, 2>>}
        \cup EntryPrefixes(h.entry, 1, c + 2 + Len(h.comments) + 14)
PrefixValue(bytes, pw) ==
  IF pw[2] = 1 THEN bytes[pw[1] + 1] ELSE bytes[pw[1] + 1] + 256 * bytes[pw[1] + 2]
\* The damage set a byte of a length prefix, which now points past the end.
PrefixPastEnd(f) ==
  /\ f.damage.kind = "set"
  /\ \E pw \in LengthPrefixes(f.value) :
       /\ f.damage.at \in (pw[1] + 1)..(pw[1] + pw[2])
       /\ pw[1] + pw[2] + PrefixValue(f.bytes, pw) > Len(f.bytes)

\* C1: decoding fails with a format error for a buffer that ends early, for a
\* length prefix that points past the end of the buffer and for a buffer with
\* bytes after the last entry record; when it succeeds, the buffer is exactly
\* the layout of the decoded values, with nothing before the end left unread.
\* (The one file of SpecOne is the first: a decode that fails leaves
\* parsed_file unbound, NoValue.)
C1_DecodeRejectsInexactLayout ==
  files # <<>> =>
    /\ (CurrentFile.damage.kind \in {"truncate", "append"} \/ PrefixPastEnd(CurrentFile))
         => ParseFailed /\ parsed_file = NoValue
    /\ ~ParseFailed => FormatBuild(build_interlex_format, parsed_file) = BuildOk(CurrentFile.bytes)

C1_Witness ==
  /\ files # <<>>
  /\ PrefixPastEnd(CurrentFile)
  /\ ParseFailed

\* The original C2: an unknown language id always ends in the lookup error.
C2_Original ==
  (PrepareDone /\ (parsed_file.foreign_language_id \notin DOMAIN LANGUAGES
                   \/ parsed_file.native_language_id \notin DOMAIN LANGUAGES))
    => pc = "failed" /\ error = "KeyError" /\ NothingReturned

\* C2 (amended): with a language id that is no key of the registry,
\* prepare_data_for_export fails and returns no metadata and no entry; the
\* failure is the lookup error, unless a header text has a byte undefined in
\* the metadata encoding, whose decode error is raised first.
C2_UnknownLanguageFails ==
  (PrepareDone /\ (parsed_file.foreign_language_id \notin DOMAIN LANGUAGES
                   \/ parsed_file.native_language_id \notin DOMAIN LANGUAGES))
    => /\ pc = "failed"
       /\ NothingReturned
       /\ output = NotWritten
       /\ error = IF \E t \in HeaderTexts(parsed_file) : HasByteIn(t, Undefined1250)
                  THEN "UnicodeDecodeError" ELSE "KeyError"

C2_Witness ==
  /\ PrepareDone
  /\ parsed_file.native_language_id = 9999
  /\ parsed_file.foreign_language_id = 1033
  /\ Len(parsed_file.entry) = 1
  /\ error = "KeyError"

\* C3: the four texts of every entry are decoded with the code page of the
\* native language; the foreign language's code page plays no part.
C3_EntriesUseNativeCodePage ==
  Prepared =>
    LET native == LANGUAGES[parsed_file.native_language_id].codepage
    IN  /\ Len(entries) = Len(parsed_file.entry)
        /\ \A k \in 1..Len(entries) :
             /\ entries[k].word = decode(parsed_file.entry[k].word, native).val
             /\ entries[k].part_of_speech = decode(parsed_file.entry[k].part_of_speech, native).val
             /\ entries[k].notes = decode(parsed_file.entry[k].notes, native).val
             /\ entries[k].translation = decode(parsed_file.entry[k].translation, native).val

C3_Witness ==
  /\ Prepared
  /\ parsed_file.foreign_language_id = 1033
  /\ parsed_file.native_language_id = 1045
  /\ Len(entries) = 1
  /\ parsed_file.entry[1].word = <<87, 163>>
  /\ entries[1].word = <<87, 321>>

\* The original C4: the program string is carried through as its raw bytes.
C4_Original ==
  Prepared =>
    /\ metadata.program_and_version = parsed_file.program_and_version
    /\ metadata.description = decode(parsed_file.description, "windows-1250").val
    /\ metadata.author = decode(parsed_file.author, "windows-1250").val
    /\ metadata.comments = decode(parsed_file.comments, "windows-1250").val

\* C4 (amended): the program string, the description, the author and the
\* comments are each decoded with the one metadata encoding, windows-1250,
\* whatever the two language ids of the file are.
C4_MetadataEncoding ==
  Prepared =>
    /\ metadata.program_and_version = decode(parsed_file.program_and_version, "windows-1250").val
    /\ metadata.description = decode(parsed_file.description, "windows-1250").val
    /\ metadata.author = decode(parsed_file.author, "windows-1250").val
    /\ metadata.comments = decode(parsed_file.comments, "windows-1250").val

C4_Witness ==
  /\ Prepared
  /\ parsed_file.foreign_language_id = 1033
  /\ parsed_file.native_language_id = 1033
  /\ parsed_file.program_and_version = <<65, 163>>
  /\ metadata.program_and_version = <<65, 321>>
  /\ parsed_file.description = <<65, 163>>

\* C5: the exported rows are the entries of the first file in their order,
\* then those of the second, and so on, and each row ends with the decoded
\* description of the file its entry was read from.
ExpectedEntries(f) ==
  prepare_data_for_export(0, FormatParse(build_interlex_format, f.bytes).val).entries
RECURSIVE RowsBefore(_)
RowsBefore(i) == IF i <= 1 THEN 0 ELSE RowsBefore(i - 1) + Len(ExpectedEntries(files[i - 1]))
C5_ExportKeepsOrderAndProvenance ==
  pc = "done" =>
    LET first == IF include_csv_header THEN 1 ELSE 0
    IN  /\ Len(files) = input_file_paths
        /\ Len(output) = first + RowsBefore(Len(files) + 1)
        /\ \A i \in 1..Len(files) : \A k \in 1..Len(ExpectedEntries(files[i])) :
             LET row == output[first + RowsBefore(i) + k]
             IN  /\ row = EntryRow(ExpectedEntries(files[i])[k])
                 /\ row[5] = files[i].value.entry[k].counter
                 /\ row[7] = decode(files[i].value.description, "windows-1250").val

C5_Witness ==
  /\ pc = "done"
  /\ Len(files) = 2
  /\ Len(files[1].value.entry) = 2
  /\ Len(files[2].value.entry) = 1
  /\ files[1].value.description # files[2].value.description
  /\ include_csv_header

\* C6: a buffer built in the layout of the format decodes to the values it
\* was built from, the reserved block and the reserved integers included.
LE16(v) == <<v % 256, v \div 256>>
LE32(v) == LE16(v % 65536) \o LE16(((v - (v % 65536)) \div 65536) % 65536)
RECURSIVE EntryLayout(_, _)
EntryLayout(entry, k) ==
  IF k > Len(entry) THEN <<>>
  ELSE LET e == entry[k]
       IN  LE16(Len(e.word)) \o e.word \o LE16(Len(e.part_of_speech)) \o e.part_of_speech
             \o LE16(Len(e.notes)) \o e.notes \o LE16(Len(e.translation)) \o e.translation
             \o LE32(e.counter) \o LE32(e.unknown)
             \o LE32(e.penalty_points) \o EntryLayout(entry, k + 1)
Layout(h) ==
  <<Len(h.program_and_version)>> \o h.program_and_version
    \o LE16(h.foreign_language_id) \o LE16(h.native_language_id)
    \o LE16(h.questions_attempted[2]) \o LE16(h.questions_attempted[1])
    \o LE16(h.questions_answered_correctly[2]) \o LE16(h.questions_answered_correctly[1])
    \o LE16(Len(h.description)) \o h.description \o LE16(Len(h.author)) \o h.author
    \o LE16(Len(h.comments)) \o h.comments \o h.unknown
    \o LE16(h.word_count[2]) \o LE16(h.word_count[1]) \o EntryLayout(h.entry, 1)
C6_RoundTrip ==
  (files # <<>> /\ CurrentFile.damage = NoDamage) =>
    /\ CurrentFile.bytes = Layout(CurrentFile.value)
    /\ ~ParseFailed
    /\ parsed_file = CurrentFile.value

C6_Witness ==
  /\ files # <<>>
  /\ CurrentFile.damage = NoDamage
  /\ pc = "prepare"
  /\ parsed_file.unknown = Mixed10
  /\ parsed_file.entry[1].unknown = 9
  /\ parsed_file.questions_attempted = U32(65535, 65535)

\* C7: a decode that succeeds gives as many entry records as the header
\* declares, and the exported word_count is the number of exported entries;
\* a file that declares no entry and ends there decodes to no entry.
C7_EntryCount ==
  /\ Parsed => parsed_file.word_count = U32(0, Len(parsed_file.entry))
  /\ Prepared => metadata.word_count = U32(0, Len(entries))
  /\ (files # <<>> /\ CurrentFile.damage = NoDamage /\ CurrentFile.value.entry = <<>>)
       => Parsed /\ parsed_file.entry = <<>>

C7_Witness ==
  /\ Prepared
  /\ SubSeq(CurrentFile.bytes, Len(CurrentFile.bytes) - 3, Len(CurrentFile.bytes)) = <<0, 0, 0, 0>>
  /\ parsed_file.word_count = U32(0, 0)
  /\ entries = <<>>

\* C8: the ask counter and the penalty are signed 32-bit values carried as
\* they are into the exported entry; penalty bytes FF FF FF FF are -1.
C8_SignedCarriedThrough ==
  Prepared =>
    /\ \A k \in 1..Len(entries) :
         /\ entries[k].counter = parsed_file.entry[k].counter
         /\ entries[k].penalty_points = parsed_file.entry[k].penalty_points
         /\ CurrentFile.damage = NoDamage =>
              /\ entries[k].counter = CurrentFile.value.entry[k].counter
              /\ entries[k].penalty_points = CurrentFile.value.entry[k].penalty_points
    /\ (entries # <<>>
        /\ SubSeq(CurrentFile.bytes, Len(CurrentFile.bytes) - 3, Len(CurrentFile.bytes))
             = <<255, 255, 255, 255>>)
         => entries[Len(entries)].penalty_points = -1

C8_Witness ==
  /\ Prepared
  /\ entries # <<>>
  /\ SubSeq(CurrentFile.bytes, Len(CurrentFile.bytes) - 3, Len(CurrentFile.bytes))
       = <<255, 255, 255, 255>>
  /\ entries[Len(entries)].penalty_points = -1
  /\ entries[Len(entries)].counter = 70000

\* A text of the decoded file has a byte undefined in the code page used for it.
UndecodableText ==
  \/ \E t \in HeaderTexts(parsed_file) : HasByteIn(t, Undefined1250)
  \/ /\ parsed_file.native_language_id \in DOMAIN LANGUAGES
     /\ \E k \in 1..Len(parsed_file.entry) : \E t \in EntryTexts(parsed_file.entry[k]) :
          HasByteIn(t, UndefinedIn(LANGUAGES[parsed_file.native_language_id].codepage))

\* The original C9: an undefined byte always ends in the decode error.
C9_Original ==
  (PrepareDone /\ UndecodableText)
    => pc = "failed" /\ error = "UnicodeDecodeError" /\ NothingReturned

\* C9 (amended): with a byte undefined in its code page in a header text or
\* an entry text, prepare_data_for_export fails and returns no metadata and
\* no entry; the failure is the decode error, unless the header texts decode
\* and the foreign-language id is no key of the registry, whose lookup error
\* is raised before any entry is decoded.
C9_UndefinedByteFails ==
  (PrepareDone /\ UndecodableText)
    => /\ pc = "failed"
       /\ NothingReturned
       /\ output = NotWritten
       /\ error = IF (\A t \in HeaderTexts(parsed_file) : ~HasByteIn(t, Undefined1250))
                     /\ parsed_file.foreign_language_id \notin DOMAIN LANGUAGES
                  THEN "KeyError" ELSE "UnicodeDecodeError"

C9_Witness ==
  /\ PrepareDone
  /\ parsed_file.native_language_id = 1033
  /\ parsed_file.foreign_language_id = 1033
  /\ Len(parsed_file.entry) = 2
  /\ parsed_file.entry[1] = DefaultEntry
  /\ parsed_file.entry[2].notes = <<141>>
  /\ error = "UnicodeDecodeError"
  /\ entries = <<>>

\* C10: the output file is written at most once and only when every input
\* file has been parsed and projected; a batch that fails writes nothing.
C10_OutputOnlyAfterWholeBatch ==
  /\ writes <= 1
  /\ (writes = 1) = (output # NotWritten)
  /\ output # NotWritten =>
       /\ pc = "done"
       /\ error = "none"
       /\ Len(files) = input_file_paths
       /\ Len(entry_sets) = input_file_paths
  /\ pc = "failed" => output = NotWritten /\ writes = 0

C10_Witness ==
  /\ pc = "failed"
  /\ error = "ConstructError"
  /\ Len(files) = 2
  /\ CurrentFile.damage.kind = "truncate"
  /\ Len(entry_sets) = 1
  /\ entry_sets[1] # <<>>
  /\ output = NotWritten

=============================================================================
